---------------------------- MODULE Spec2Model ----------------------------
(***************************************************************************)
(* Message wall: the api-handler Lambda (src/app/api-handler/handler.py)   *)
(* and the snapshot-writer Lambda (src/app/snapshot-writer/handler.py),    *)
(* with the DynamoDB table, the EventBridge bus and the S3 object they     *)
(* share.  Every boto3 call is one atomic step.  The code around the calls *)
(* is local to the invocation: what runs before the first call belongs to  *)
(* the step of the first call, what runs after a call to that call's step. *)
(*                                                                         *)
(* Strings that the program builds, splits, trims or compares are          *)
(* sequences of code points (35 is '#', 32 is ' ', 48..57 are '0'..'9',    *)
(* 90 is 'Z', 97.. are 'a'..).  DynamoDB orders sort keys of type S by     *)
(* their UTF-8 bytes, which for these ASCII strings is the code-point      *)
(* order.                                                                  *)
(***************************************************************************)
EXTENDS Integers, Sequences, FiniteSets, Bags, TLC

\* ------------------------------------------------------------------ bounds
\* Api-handler invocations of the concurrent scenario (Spec).
MaxIngests == 2
\* Api-handler invocations of the api-handler scenario (SpecApi), all of which
\* may be in flight at once.
MaxApi == 3
\* Api-handler invocations of the sequential scenario (SpecSeq).
MaxSeqIngests == 6
\* Api-handler invocations of the request scenario (SpecHttp).
MaxHttp == 2
\* The api-handler invocations of the scenario with failing calls.
MaxFaulty == 2
\* The api-handler invocations of the scenario with a stocked table.
MaxStocked == 1
\* The first microsecond value the wall clock may show; the clock shows this
\* one or the next (a steady clock goes on from there), so that the readings
\* straddle a digit carry (9 -> 10).
ClockBase == 9

\* ------------------------------------------------------- program constants
\* len(message_text) > 500
MAX_CHARS == 500
\* Limit=5
LIMIT == 5
\* %f : microsecond as a decimal number, zero-padded to 6 digits
USEC_DIGITS == 6

\* ----------------------------------------------------------------- strings
Min(S) == CHOOSE x \in S : \A y \in S : x <= y
Max(S) == CHOOSE x \in S : \A y \in S : y <= x

\* s < t in the order of the code points (a proper prefix comes first).
RECURSIVE StrLess(_, _)
StrLess(s, t) ==
    IF t = <<>> THEN FALSE
    ELSE IF s = <<>> THEN TRUE
    ELSE IF Head(s) # Head(t) THEN Head(s) < Head(t)
    ELSE StrLess(Tail(s), Tail(t))

Repeat(c, n) == [i \in 1..n |-> c]

\* The characters str.strip() removes (space, tab, newline, carriage return).
WHITESPACE == {32, 9, 10, 13}

\* The first index from i on, and the last index up to j, at which s holds
\* no whitespace (Len(s) + 1, and 0, when there is none).
RECURSIVE FirstKept(_, _)
FirstKept(s, i) ==
    IF i > Len(s) \/ s[i] \notin WHITESPACE THEN i ELSE FirstKept(s, i + 1)
RECURSIVE LastKept(_, _)
LastKept(s, j) ==
    IF j < 1 \/ s[j] \notin WHITESPACE THEN j ELSE LastKept(s, j - 1)

\* str.strip(): s without its leading and trailing whitespace.
Strip(s) == SubSeq(s, FirstKept(s, 1), LastKept(s, Len(s)))

\* The index of the first occurrence of character c in s from i on, 0 when
\* there is none.
RECURSIVE FindFrom(_, _, _)
FindFrom(s, c, i) ==
    IF i > Len(s) THEN 0 ELSE IF s[i] = c THEN i ELSE FindFrom(s, c, i + 1)
Find(s, c) == FindFrom(s, c, 1)

\* str.split(c): the pieces of s between the occurrences of c.
RECURSIVE Split(_, _)
Split(s, c) ==
    LET i == Find(s, c)
    IN  IF i = 0 THEN <<s>>
        ELSE <<SubSeq(s, 1, i - 1)>> \o Split(SubSeq(s, i + 1, Len(s)), c)


\* ------------------------------------------------------ api-handler: input
\* A request event, as far as the handler reads it:
\*   hasMethod, method   event["requestContext"]["http"]["method"], when present
\*   hasBody, body       event["body"], when present
\*   isBase64Encoded     event["isBase64Encoded"] (False when missing)
\* A body is None (wire "none") or a string.  A string is told by what it
\* decodes to: wire "plain" is the text of doc, wire "base64" is the base64
\* encoding of the UTF-8 text of doc, wire "junk" is neither.  doc is what
\* json.loads makes of the text: t = "garbage" is text that is no JSON
\* ("not json"), the others are JSON values; an object's member "text" is
\* missing, null, a number or a string s.
TextMember(t, s) == [t |-> t, s |-> s]
Doc(t, text) == [t |-> t, text |-> text]
NoText == TextMember("missing", <<>>)
ObjWith(s) == Doc("obj", TextMember("str", s))
Raw(wire, doc) == [wire |-> wire, doc |-> doc]
NoneBody == Raw("none", Doc("null", NoText))
Event(hasMethod, method, hasBody, body, b64) ==
    [hasMethod |-> hasMethod, method |-> method, hasBody |-> hasBody,
     body |-> body, isBase64Encoded |-> b64]
Post(body) == Event(TRUE, "POST", TRUE, body, FALSE)

\* What a handler invocation ends with: a returned response or an exception
\* that leaves the handler.
Return(r) == [kind |-> "return", value |-> r]
Raise(exc) == [kind |-> "raise", exc |-> exc]
NoResult == [kind |-> "none"]

\* json.dumps of a dict is kept as the dict, tagged; a str body is returned
\* as it is.
JsonDumps(d) == [kind |-> "json", v |-> d]
StrBody(s) == [kind |-> "str", s |-> s]

\* response(status_code, body): body is a dict (isDict) or a str.
response(status_code, isDict, body) ==
    [statusCode |-> status_code,
     headers |-> [ContentType |-> "application/json"],
     body |-> IF isDict THEN JsonDumps(body) ELSE StrBody(body)]

\* A lookup of the method that takes a missing method for a POST.
GetMethodOrPost(event, default) == IF event.hasMethod THEN event.method ELSE "POST"

\* event.get("requestContext", {}).get("http", {}).get("method", default)
GetMethod(event, default) == IF event.hasMethod THEN event.method ELSE default

\* event.get("body", "{}")
GetBody(event) == IF event.hasBody THEN event.body ELSE Raw("plain", Doc("obj", NoText))

\* base64.b64decode(raw).decode("utf-8"): the decoded string, or the exception.
B64Decode(raw) ==
    CASE raw.wire = "none" -> [ok |-> FALSE, exc |-> "TypeError", raw |-> raw]
      [] raw.wire = "base64" -> [ok |-> TRUE, exc |-> "", raw |-> Raw("plain", raw.doc)]
      [] OTHER -> [ok |-> FALSE, exc |-> "ValueError", raw |-> raw]

\* json.loads(raw): the value, or the exception.
JsonLoads(raw) ==
    CASE raw.wire = "none" -> [ok |-> FALSE, exc |-> "TypeError", doc |-> raw.doc]
      [] raw.wire = "plain" /\ raw.doc.t # "garbage" -> [ok |-> TRUE, exc |-> "", doc |-> raw.doc]
      [] OTHER -> [ok |-> FALSE, exc |-> "JSONDecodeError", doc |-> raw.doc]

\* body.get("text", "").strip(): the trimmed text, or the exception.
GetText(doc) ==
    CASE doc.t # "obj" -> [ok |-> FALSE, exc |-> "AttributeError", text |-> <<>>]
      [] doc.text.t = "missing" -> [ok |-> TRUE, exc |-> "", text |-> Strip(<<>>)]
      [] doc.text.t = "str" -> [ok |-> TRUE, exc |-> "", text |-> Strip(doc.text.s)]
      [] OTHER -> [ok |-> FALSE, exc |-> "AttributeError", text |-> <<>>]

\* except (json.JSONDecodeError, ValueError): the exceptions the try block's
\* handler catches (binascii.Error and UnicodeDecodeError are ValueErrors).
Caught(exc) == exc \in {"JSONDecodeError", "ValueError"}

\* The try block that parses the body: the trimmed text (ok), or the
\* exception it raised.
ParseBody(event) ==
    LET raw0 == GetBody(event)
        dec  == IF event.isBase64Encoded THEN B64Decode(raw0)
                ELSE [ok |-> TRUE, exc |-> "", raw |-> raw0]
        val  == JsonLoads(dec.raw)
        txt  == GetText(val.doc)
    IN  IF ~dec.ok THEN [ok |-> FALSE, exc |-> dec.exc, text |-> <<>>]
        ELSE IF ~val.ok THEN [ok |-> FALSE, exc |-> val.exc, text |-> <<>>]
        ELSE txt

\* A length check that lets 501 characters pass.
TooLongByTwo(message_text) == Len(message_text) > MAX_CHARS + 1

\* len(message_text) > 500
TooLong(message_text) == Len(message_text) > MAX_CHARS

\* The handler up to its first store call: the result it ends with, or
\* NoResult when the request goes on to be stored.
Dispatch(event) ==
    LET parsed == ParseBody(event)
    IN  IF GetMethod(event, "None") = "OPTIONS"
            THEN Return(response(200, FALSE, <<>>))
        ELSE IF GetMethod(event, "") # "POST"
            THEN Return(response(405, TRUE, [error |-> "Method not allowed"]))
        ELSE IF ~parsed.ok
            THEN IF Caught(parsed.exc)
                 THEN Return(response(400, TRUE, [error |-> "Invalid JSON"]))
                 ELSE Raise(parsed.exc)
        ELSE IF parsed.text = <<>>
            THEN Return(response(400, TRUE, [error |-> "Message text is required"]))
        ELSE IF TooLong(parsed.text)
            THEN Return(response(400, TRUE, [error |-> "Message too long (max 500 chars)"]))
        ELSE NoResult

\* ------------------------------------------- api-handler: timestamp, id, key
\* n written in decimal, zero-padded to w digits (the last w digits of n).
RECURSIVE Pow10(_)
Pow10(k) == IF k = 0 THEN 1 ELSE 10 * Pow10(k - 1)
ZeroPadded(n, w) == [i \in 1..w |-> 48 + ((n \div Pow10(w - i)) % 10)]

\* now.strftime("%Y-%m-%dT%H:%M:%S.%fZ") of a clock reading.  A reading is the
\* microsecond of the wall clock; the date and the time of day to the second
\* are the same in every reading, and their (equal) characters are left out.
strftime(now) == ZeroPadded(now, USEC_DIGITS) \o <<90>>

\* The wall clock readings datetime.now may return.  Invocations run on hosts
\* whose clocks are not synchronised: a later reading may be equal or smaller.
Clock == {ClockBase, ClockBase + 1}

\* str(uuid.uuid4()) for the n-th identifier of the pool: lower-case hex
\* digits (two of them stand for the 32 of a UUID).
HexDigit(d) == IF d < 10 THEN 48 + d ELSE 87 + d
UuidStr(n) == <<HexDigit((n \div 16) % 16), HexDigit(n % 16)>>

\* uuid.uuid4(): an identifier never issued before (a collision of two random
\* 122-bit values is left out).  Of the unused identifiers of the pool the
\* smallest and the greatest are drawn, so that a new identifier may sort
\* below or above the earlier ones.
Uuid4(issued, poolSize) ==
    LET free == {n \in 1..poolSize : UuidStr(n) \notin issued}
    IN  IF free = {} THEN {} ELSE {UuidStr(Min(free)), UuidStr(Max(free))}

\* A sort key that leaves the id out.
SortKeyNoId(timestamp, message_id) == timestamp

\* sort_key = f"{timestamp}#{message_id}"
SortKey(timestamp, message_id) == timestamp \o <<35>> \o message_id


\* ------------------------------------------------------------ the table
\* The DynamoDB table is the set of its items; an item's key is (PK, SK).
SameKey(i, j) == i.PK = j.PK /\ i.SK = j.SK

\* A put that leaves the item alone in the table.
PutItemOnly(t, item) == {item}

\* table.put_item(Item=item): the item replaces the one with its key, if any.
PutItemInto(t, item) == {i \in t : ~SameKey(i, item)} \cup {item}

MetadataKey == [PK |-> "METADATA", SK |-> "METADATA"]
MetadataItems(t) == {i \in t : i.PK = "METADATA"}

\* The new value of SET messageCount = :zero + :inc
CountReset(t) == 0 + 1

\* The new value of SET messageCount = if_not_exists(messageCount, :zero) + :inc
IncrementedCount(t) ==
    IF MetadataItems(t) = {} THEN 0 + 1
    ELSE (CHOOSE i \in MetadataItems(t) : TRUE).messageCount + 1

\* An update that writes nothing.
UpdateItemSkipped(t) == t

\* table.update_item(Key=METADATA, ...): one atomic read-modify-write of the
\* item, which is created when missing.
UpdateItemInto(t) ==
    PutItemInto(t, [PK |-> "METADATA", SK |-> "METADATA",
                    messageCount |-> IncrementedCount(t)])

\* The item the api-handler stores for a message.
MessageItem(sort_key, message_text, timestamp) ==
    [PK |-> "MESSAGE", SK |-> sort_key, text |-> message_text, createdAt |-> timestamp]

\* metadata_response.get("Item", {}).get("messageCount", 0) of table.get_item
GetMessageCount(t) ==
    IF MetadataItems(t) = {} THEN 0
    ELSE (CHOOSE i \in MetadataItems(t) : TRUE).messageCount

\* The items of S in ascending order of SK, at most n of them.
RECURSIVE Ascending(_, _)
Ascending(S, n) ==
    IF S = {} \/ n = 0 THEN <<>>
    ELSE LET bottom == CHOOSE i \in S : \A j \in S : j = i \/ StrLess(i.SK, j.SK)
         IN  <<bottom>> \o Ascending(S \ {bottom}, n - 1)

\* The items of S in descending order of SK, at most n of them.
RECURSIVE Descending(_, _)
Descending(S, n) ==
    IF S = {} \/ n = 0 THEN <<>>
    ELSE LET top == CHOOSE i \in S : \A j \in S : j = i \/ StrLess(j.SK, i.SK)
         IN  <<top>> \o Descending(S \ {top}, n - 1)

\* A query with no Limit.
QueryUnlimited(t) ==
    LET S == {i \in t : i.PK = "MESSAGE"} IN Descending(S, Cardinality(S))

\* table.query(PK = "MESSAGE", ScanIndexForward=False, Limit=5)["Items"]
QueryItems(t) == Descending({i \in t : i.PK = "MESSAGE"}, LIMIT)

\* ---------------------------------------------------------- snapshot-writer
\* The component before the first '#'.
MessageIdFirst(sk) == Split(sk, 35)[1]

\* message_id = sk.split("#")[1] if "#" in sk else sk
MessageId(sk) == IF Find(sk, 35) # 0 THEN Split(sk, 35)[2] ELSE sk

\* The entry of state["messages"] for an item of the query.
MessageOf(item) ==
    [id |-> MessageId(item.SK), text |-> item.text, createdAt |-> item.createdAt]

\* state = {"messageCount": int(message_count), "messages": messages}
StateOf(message_count, items) ==
    [messageCount |-> message_count,
     messages |-> [k \in 1..Len(items) |-> MessageOf(items[k])]]

STATE_KEY == "state.json"

\* The object s3.put_object writes.
StateObject(state) ==
    [Key |-> STATE_KEY, Body |-> JsonDumps(state), ContentType |-> "application/json",
     CacheControl |-> "no-cache, no-store, must-revalidate"]

\* s3.put_object(Bucket, Key, ...): the object replaces the one under its key.
PutObjectInto(b, obj) == {o \in b : o.Key # obj.Key} \cup {obj}

\* A trigger of the snapshot-writer that no api-handler emitted.
ManualEvent ==
    [Source |-> "manual", DetailType |-> "Test",
     Detail |-> JsonDumps([messageId |-> <<120>>, timestamp |-> <<>>]),
     EventBusName |-> "default"]

\* A trigger of the snapshot-writer made by hand in the shape of an entry of
\* the api-handler, for a message that is not in the table.
ForgedEvent ==
    [Source |-> "messagewall.api-handler", DetailType |-> "MessagePosted",
     Detail |-> JsonDumps([messageId |-> <<121>>, timestamp |-> <<48>>]),
     EventBusName |-> "default"]

\* The entry events.put_events sends for a message.
MessagePosted(message_id, timestamp) ==
    [Source |-> "messagewall.api-handler", DetailType |-> "MessagePosted",
     Detail |-> JsonDumps([messageId |-> message_id, timestamp |-> timestamp]),
     EventBusName |-> "default"]


\* ------------------------------------------------------------------- state
VARIABLES
    table,      \* the DynamoDB table: the set of its items
    bus,        \* the EventBridge bus: the entries put on it
    bucket,     \* the S3 bucket: the set of its objects
    calls,      \* the api-handler invocations, in the order they started
    builds,     \* the snapshot-writer invocations in flight (a bag)
    delivered,  \* history: the bus entries that have triggered a snapshot-writer
    runs,       \* history: the snapshot-writer invocations that have ended
                \* since the last step of an api-handler: 0, 1, or 2 for
                \* two and more
    finished    \* history, kept in the traced scenarios: the snapshot-writer
                \* invocations that have ended

vars == <<table, bus, bucket, calls, builds, delivered, runs, finished>>

\* An api-handler invocation.  pc is the boto3 call it makes next, or "done";
\* now (history) is the clock reading behind timestamp, and countAfter
\* (history) is messageCount right after its update_item, failed (history)
\* is the boto3 call of it that failed, if any.
Call(event, pc, message_text, timestamp, message_id, result) ==
    [event |-> event, pc |-> pc, message_text |-> message_text,
     timestamp |-> timestamp, message_id |-> message_id,
     sort_key |-> SortKey(timestamp, message_id), result |-> result,
     now |-> 0, countAfter |-> 0, failed |-> "none"]

\* The trace of a snapshot-writer invocation (history): the entries that
\* were on the bus when it started, and the table as it was at each of its
\* reads.  An invocation of a scenario that is not traced has none.
NoTrace == [on |-> FALSE, notified |-> {}, seen |-> <<>>]
Trace(notified, seen) == [on |-> TRUE, notified |-> notified, seen |-> seen]

\* An invocation that takes the message of a MessagePosted event for one the
\* count does not cover yet.
BuildTrustingEvent(event, message_count) ==
    [event |-> event, pc |-> "query",
     message_count |-> message_count + (IF event.DetailType = "MessagePosted" THEN 1 ELSE 0),
     items |-> <<>>, trace |-> NoTrace]

\* A snapshot-writer invocation.  pc is the boto3 call it makes next.
Build(event, message_count) ==
    [event |-> event, pc |-> "query", message_count |-> message_count, items |-> <<>>,
     trace |-> NoTrace]

\* The record of a snapshot-writer invocation that has ended: what it read,
\* the objects it put (one or none) and what it returned or raised.
Ended(build, published, result) ==
    [event |-> build.event, message_count |-> build.message_count,
     items |-> build.items, trace |-> build.trace,
     published |-> published, result |-> result]

Running(seq) == {k \in 1..Len(seq) : seq[k].pc # "done"}
InFlight == Cardinality(Running(calls)) + BagCardinality(builds)

\* The bag with one more, and with one less, of b.
With(bag, b) == bag (+) SetToBag({b})
Without(bag, b) == bag (-) SetToBag({b})

\* The identifiers uuid4 has issued.
Issued == {calls[k].message_id : k \in 1..Len(calls)} \ {<<>>}

\* A scenario: the request events sent, whether the bus delivers its entries
\* to the snapshot-writer, the events that trigger the snapshot-writer by
\* hand, whether the api-handler invocations read one steady clock, how many
\* api-handler invocations there are, and how many invocations of both
\* handlers may be in flight at once.  A traced scenario keeps the history of
\* its snapshot-writer invocations and has no more of them than traced (0:
\* the scenario is not traced, and has any number of them).
Scenario(events, delivers, manual, steady, maxCalls, maxRunning, traced) ==
    [events |-> events, delivers |-> delivers, manual |-> manual,
     steady |-> steady, maxCalls |-> maxCalls, maxRunning |-> maxRunning,
     traced |-> traced]

\* datetime.now(timezone.utc): any reading of Clock, or, of a steady clock,
\* the latest reading so far or the next microsecond.
Latest == Max({ClockBase} \cup {calls[k].now : k \in 1..Len(calls)})
ClockOf(sc) == IF sc.steady THEN {Latest, Latest + 1} ELSE Clock

Init ==
    /\ table = {}
    /\ bus = {}
    /\ bucket = {}
    /\ calls = <<>>
    /\ builds = EmptyBag
    /\ delivered = {}
    /\ runs = 0
    /\ finished = {}

\* ------------------------------------------------------ api-handler: steps
\* Whether the handler turns the request away before it calls the table.
Rejected(event) == Dispatch(event) # NoResult

\* handler(event, context) for a request it turns away: it returns, or
\* raises, without a call to the table or the bus.
Reject(sc) ==
    /\ Len(calls) < sc.maxCalls
    /\ InFlight < sc.maxRunning
    /\ \E event \in sc.events :
          /\ Rejected(event)
          /\ calls' = Append(calls, Call(event, "done", <<>>, <<>>, <<>>, Dispatch(event)))
    /\ runs' = 0
    /\ UNCHANGED <<table, bus, bucket, builds, delivered, finished>>

\* handler(event, context) up to and with table.update_item(...): the text,
\* the timestamp, the id and the sort key are fixed, messageCount is
\* incremented.
UpdateItem(sc) ==
    /\ Len(calls) < sc.maxCalls
    /\ InFlight < sc.maxRunning
    /\ \E event \in sc.events, now \in ClockOf(sc), uuid \in Uuid4(Issued, sc.maxCalls) :
          /\ ~Rejected(event)
          /\ table' = UpdateItemInto(table)
          /\ calls' = Append(calls,
                 [Call(event, "put_item", ParseBody(event).text, strftime(now),
                       uuid, NoResult) EXCEPT !.now = now,
                                              !.countAfter = GetMessageCount(table')])
    /\ runs' = 0
    /\ UNCHANGED <<bus, bucket, builds, delivered, finished>>

\* The notification is sent where the message should be stored.
NotifyBeforePut ==
    \E k \in 1..Len(calls) :
        /\ calls[k].pc = "put_item"
        /\ bus' = bus \cup {MessagePosted(calls[k].message_id, calls[k].timestamp)}
        /\ calls' = [calls EXCEPT ![k].pc = "put_events"]
        /\ runs' = 0
        /\ UNCHANGED <<table, bucket, builds, delivered, finished>>

\* table.put_item(...): the message is stored.
PutItem ==
    \E k \in 1..Len(calls) :
        /\ calls[k].pc = "put_item"
        /\ table' = PutItemInto(table, MessageItem(calls[k].sort_key,
                                       calls[k].message_text, calls[k].timestamp))
        /\ calls' = [calls EXCEPT ![k].pc = "put_events"]
        /\ runs' = 0
        /\ UNCHANGED <<bus, bucket, builds, delivered, finished>>

\* The 200 response.
Success(message_id, timestamp) ==
    response(200, TRUE, [success |-> TRUE, messageId |-> message_id,
                         timestamp |-> timestamp])

\* events.put_events(...), then return response(200, ...).
PutEvents ==
    \E k \in 1..Len(calls) :
        /\ calls[k].pc = "put_events"
        /\ bus' = bus \cup {MessagePosted(calls[k].message_id, calls[k].timestamp)}
        /\ calls' = [calls EXCEPT ![k].pc = "done",
                       ![k].result = Return(Success(calls[k].message_id, calls[k].timestamp))]
        /\ runs' = 0
        /\ UNCHANGED <<table, bucket, builds, delivered, finished>>

\* --------------------------------------------------- snapshot-writer: steps
\* The events that may trigger the snapshot-writer.
Triggers(sc) == (IF sc.delivers THEN bus ELSE {}) \cup sc.manual

\* A traced scenario has room for one more snapshot-writer invocation.
Traceable(sc) ==
    sc.traced > 0 => Cardinality(finished) + BagCardinality(builds) < sc.traced

\* The trace of an invocation that starts now and reads the table.
Started(sc) == IF sc.traced > 0 THEN Trace(bus, <<table>>) ELSE NoTrace

\* The trace of an invocation after one more read of the table.
Read(trace) == IF trace.on THEN [trace EXCEPT !.seen = Append(@, table)] ELSE trace

\* The history with the record of an invocation that has ended.
Record(build, published, result) ==
    IF build.trace.on THEN finished \cup {Ended(build, published, result)} ELSE finished

\* handler(event, context) up to and with table.get_item(Key=METADATA): the
\* invocation is triggered by an entry of the bus (which may be delivered
\* again and again) or by an event sent by hand, and message_count is read.
GetItem(sc) ==
    /\ InFlight < sc.maxRunning
    /\ Traceable(sc)
    /\ \E event \in Triggers(sc) :
          /\ builds' = With(builds, [Build(event, GetMessageCount(table))
                                        EXCEPT !.trace = Started(sc)])
          /\ delivered' = delivered \cup ({event} \cap bus)
    /\ UNCHANGED <<table, bus, bucket, calls, runs, finished>>

\* table.query(...): the last messages are read.
Query ==
    \E b \in BagToSet(builds) :
        /\ b.pc = "query"
        /\ builds' = With(Without(builds, b),
                          [b EXCEPT !.pc = "put_object", !.items = QueryItems(table),
                                    !.trace = Read(@)])
        /\ UNCHANGED <<table, bus, bucket, calls, delivered, runs, finished>>

\* What the snapshot-writer returns.
Written(message_count) ==
    [statusCode |-> 200,
     body |-> JsonDumps([success |-> TRUE, messageCount |-> message_count])]

\* An object that carries the event of its invocation.
ObjectWithEvent(build) ==
    StateObject([messageCount |-> build.message_count,
                 messages |-> StateOf(build.message_count, build.items).messages,
                 trigger |-> build.event])

\* An object that counts the message of its trigger in.
ObjectCountingOn(build) == StateObject(StateOf(build.message_count + 1, build.items))

\* The object an invocation writes from what it has read.
ObjectOf(build) == StateObject(StateOf(build.message_count, build.items))

\* s3.put_object(...), then return: the invocation is over.
PutObject ==
    \E b \in BagToSet(builds) :
        /\ b.pc = "put_object"
        /\ bucket' = PutObjectInto(bucket, ObjectOf(b))
        /\ builds' = Without(builds, b)
        /\ runs' = Min({runs + 1, 2})
        /\ finished' = Record(b, <<ObjectOf(b)>>, Return(Written(b.message_count)))
        /\ UNCHANGED <<table, bus, calls, delivered>>

\* ------------------------------------------------------------ failing calls
\* except Exception: the 500 response.
InternalError == response(500, TRUE, [error |-> "Internal server error"])

\* handler(event, context) when table.update_item raises: nothing is written
\* and the handler returns the 500 response.
UpdateItemFails(sc) ==
    /\ Len(calls) < sc.maxCalls
    /\ InFlight < sc.maxRunning
    /\ \E event \in sc.events, now \in ClockOf(sc), uuid \in Uuid4(Issued, sc.maxCalls) :
          /\ ~Rejected(event)
          /\ calls' = Append(calls,
                 [Call(event, "done", ParseBody(event).text, strftime(now),
                       uuid, Return(InternalError)) EXCEPT !.now = now,
                                                          !.failed = "update_item"])
    /\ runs' = 0
    /\ UNCHANGED <<table, bus, bucket, builds, delivered, finished>>

\* table.put_item raises: the handler returns the 500 response.
PutItemFails ==
    \E k \in 1..Len(calls) :
        /\ calls[k].pc = "put_item"
        /\ calls' = [calls EXCEPT ![k].pc = "done", ![k].failed = "put_item",
                                  ![k].result = Return(InternalError)]
        /\ runs' = 0
        /\ UNCHANGED <<table, bus, bucket, builds, delivered, finished>>

\* events.put_events raises: the handler returns the 500 response.
PutEventsFails ==
    \E k \in 1..Len(calls) :
        /\ calls[k].pc = "put_events"
        /\ calls' = [calls EXCEPT ![k].pc = "done", ![k].failed = "put_events",
                                  ![k].result = Return(InternalError)]
        /\ runs' = 0
        /\ UNCHANGED <<table, bus, bucket, builds, delivered, finished>>

\* events.put_events returns {"FailedEntryCount": 1, "Entries": [{"ErrorCode":
\* ...}]}: the bus did not take the entry, and the call raises nothing.  The
\* handler does not look at what put_events returns and goes on to return
\* response(200, ...).
PutEventsFailedEntry ==
    \E k \in 1..Len(calls) :
        /\ calls[k].pc = "put_events"
        /\ calls' = [calls EXCEPT ![k].pc = "done", ![k].failed = "put_events",
                       ![k].result = Return(Success(calls[k].message_id, calls[k].timestamp))]
        /\ runs' = 0
        /\ UNCHANGED <<table, bus, bucket, builds, delivered, finished>>

\* An except clause that returns the acknowledgement of an empty wall.
Swallowed == Return([statusCode |-> 200,
                     body |-> JsonDumps([success |-> TRUE, messageCount |-> 0])])

\* What the snapshot-writer ends with when a boto3 call raises: except
\* Exception, print, raise.
Reraised == Raise("ClientError")

\* handler(event, context) of the snapshot-writer when table.get_item
\* raises: the invocation ends with the exception.
GetItemFails(sc) ==
    /\ InFlight < sc.maxRunning
    /\ Traceable(sc)
    /\ \E event \in Triggers(sc) :
          /\ finished' = Record([Build(event, 0) EXCEPT !.trace = Started(sc)],
                                <<>>, Reraised)
          /\ delivered' = delivered \cup ({event} \cap bus)
    /\ UNCHANGED <<table, bus, bucket, calls, builds, runs>>

\* table.query raises: the invocation ends with the exception.
QueryFails ==
    \E b \in BagToSet(builds) :
        /\ b.pc = "query"
        /\ builds' = Without(builds, b)
        /\ finished' = Record(b, <<>>, Reraised)
        /\ UNCHANGED <<table, bus, bucket, calls, delivered, runs>>

\* s3.put_object raises: the invocation ends with the exception.
PutObjectFails ==
    \E b \in BagToSet(builds) :
        /\ b.pc = "put_object"
        /\ builds' = Without(builds, b)
        /\ finished' = Record(b, <<>>, Reraised)
        /\ UNCHANGED <<table, bus, bucket, calls, delivered, runs>>

\* The steps in which a boto3 call of the api-handler fails.
ApiFailures(sc) ==
    \/ UpdateItemFails(sc)
    \/ PutItemFails
    \/ PutEventsFails
    \/ PutEventsFailedEntry

\* The steps in which a boto3 call of the snapshot-writer fails.
BuildFailures(sc) ==
    \/ GetItemFails(sc)
    \/ QueryFails
    \/ PutObjectFails

\* ---------------------------------------------------------- specifications
\* The steps of the api-handler.
ApiNext(sc) ==
    \/ Reject(sc)
    \/ UpdateItem(sc)
    \/ PutItem
    \/ PutEvents

\* The steps of both handlers, for requests the api-handler accepts.
NextOf(sc) ==
    \/ UpdateItem(sc)
    \/ PutItem
    \/ PutEvents
    \/ GetItem(sc)
    \/ Query
    \/ PutObject

\* Texts: "a", " b ", "", " \t", 500 and 501 times "a", and 500 times "a"
\* between a space and a newline.
TextA == <<97>>
TextB == <<32, 98, 32>>
TextBlank == <<32, 9>>
TextMax == Repeat(97, MAX_CHARS)
TextOver == Repeat(97, MAX_CHARS + 1)
TextPadded == <<32>> \o TextMax \o <<10>>

\* A valid post, whose text needs trimming.
ValidEvents == {Post(Raw("plain", ObjWith(TextB)))}

\* The whole system with two invocations (of either handler) in flight at
\* once, the snapshot-writer triggered by the bus or by hand.
Concurrent == Scenario(ValidEvents, TRUE, {ManualEvent}, FALSE, MaxIngests, 2, 0)
Next == NextOf(Concurrent)
Spec == Init /\ [][Next]_vars

\* The whole system with one invocation at a time: each runs to its end
\* before the next starts.  The api-handler invocations read one steady
\* clock; the snapshot-writer is triggered by hand, with one of two events.
Sequential ==
    Scenario(ValidEvents, FALSE, {ManualEvent, ForgedEvent}, TRUE, MaxSeqIngests, 1, 0)
NextSeq == NextOf(Sequential)
SpecSeq == Init /\ [][NextSeq]_vars

\* The api-handler alone, all its invocations in flight at once: two valid
\* posts and one with a blank text.
ApiEvents ==
    {Post(Raw("plain", ObjWith(TextA))), Post(Raw("plain", ObjWith(TextB))),
     Post(Raw("plain", ObjWith(TextBlank)))}
Api == Scenario(ApiEvents, FALSE, {}, FALSE, MaxApi, MaxApi, 0)
NextApi == ApiNext(Api)
SpecApi == Init /\ [][NextApi]_vars

\* The bodies of the requests: an object with each of the texts, with no
\* text, with a null and with a number for text; "not json"; the JSON values
\* null, a number, an array and a string; None; bytes that are neither JSON
\* nor base64.
PlainBodies ==
    {Raw("plain", ObjWith(t)) : t \in {TextA, TextB, <<>>, TextBlank, TextMax, TextOver, TextPadded}}
    \cup {Raw("plain", Doc("obj", TextMember(t, <<>>))) : t \in {"missing", "null", "num"}}
    \cup {Raw("plain", Doc(t, NoText)) : t \in {"garbage", "null", "num", "arr", "str"}}
    \cup {NoneBody, Raw("junk", Doc("garbage", NoText))}

\* The requests: posts of the bodies; posts with no body; posts flagged as
\* base64 of a body that is base64, plain or None; a base64 body that is not
\* flagged; and the other methods, or none, with a valid body and with None.
HttpEvents ==
    {Post(b) : b \in PlainBodies}
    \cup {Event(TRUE, "POST", FALSE, NoneBody, FALSE)}
    \cup {Event(TRUE, "POST", TRUE, b, TRUE) :
            b \in {Raw("base64", ObjWith(TextA)), Raw("base64", Doc("garbage", NoText)),
                   Raw("plain", ObjWith(TextA)), NoneBody}}
    \cup {Post(Raw("base64", ObjWith(TextA)))}
    \cup {Event(hm, m, TRUE, b, FALSE) :
            hm \in {TRUE}, m \in {"OPTIONS", "GET", "DELETE"},
            b \in {Raw("plain", ObjWith(TextA)), NoneBody}}
    \cup {Event(FALSE, "", TRUE, b, FALSE) : b \in {Raw("plain", ObjWith(TextA)), NoneBody}}

\* The api-handler alone, one request after the other.
Requests == Scenario(HttpEvents, FALSE, {}, FALSE, MaxHttp, 1, 0)
NextHttp == ApiNext(Requests)
SpecHttp == Init /\ [][NextHttp]_vars

\* The whole system with failing calls of the api-handler: two invocations
\* (of either handler) in flight at once, the snapshot-writer triggered by
\* hand.
Faulty == Scenario(ValidEvents, FALSE, {ManualEvent}, FALSE, MaxFaulty, 2, 0)
NextFaulty == NextOf(Faulty) \/ ApiFailures(Faulty)
SpecFaulty == Init /\ [][NextFaulty]_vars

\* A table that holds messages already.  The n-th message of the stock was
\* posted from a host whose clock is ahead of the ones the new posts read.
StockItem(n) ==
    MessageItem(SortKey(strftime(ClockBase + 10 + n), UuidStr(240 + n)), TextA,
                strftime(ClockBase + 10 + n))

\* An item that some other writer stored under a sort key with no '#' ("old").
LegacyItem == MessageItem(<<111, 108, 100>>, TextA, strftime(ClockBase + 10))

\* The table after the messages of items were stored, one after the other.
RECURSIVE Stocked(_)
Stocked(items) ==
    IF items = <<>> THEN {}
    ELSE PutItemInto(UpdateItemInto(Stocked(Tail(items))), Head(items))

\* The stocks: the legacy item and three messages, or four: one less than
\* the snapshot shows, or as many.
Stocks ==
    {Stocked(<<LegacyItem, StockItem(3), StockItem(2), StockItem(1)>>),
     Stocked(<<LegacyItem, StockItem(4), StockItem(3), StockItem(2), StockItem(1)>>)}

\* The state with a stock in the table, and its snapshot in the bucket.  The
\* notifications of the stock were delivered long ago.
InitStocked ==
    /\ table \in Stocks
    /\ bus = {}
    /\ bucket = PutObjectInto({}, StateObject(StateOf(GetMessageCount(table),
                                                       QueryItems(table))))
    /\ calls = <<>>
    /\ builds = EmptyBag
    /\ delivered = {}
    /\ runs = 0
    /\ finished = {}

\* The whole system on a stocked table: two invocations in flight at once,
\* the snapshot-writer triggered by the bus or by hand, its calls failing,
\* two invocations of it, traced.
OnStock ==
    Scenario(ValidEvents, TRUE, {ManualEvent, ForgedEvent}, FALSE, MaxStocked, 2, 2)
NextStocked == NextOf(OnStock) \/ BuildFailures(OnStock)
SpecStocked == InitStocked /\ [][NextStocked]_vars

\* ------------------------------------------------------------------ claims
\* The api-handler invocations that returned the 200 response.
Succeeded == {k \in 1..Len(calls) :
                calls[k].result.kind = "return" /\ calls[k].result.value.statusCode = 200}

\* The api-handler invocations whose put_item has been made.
Wrote == {k \in 1..Len(calls) : calls[k].pc = "put_events" \/ k \in Succeeded}

\* The api-handler invocations whose update_item has been made.
Counted == {k \in 1..Len(calls) : calls[k].pc # "done" \/ k \in Succeeded}

\* The entry of a snapshot that shows the message of an api-handler invocation.
EntryOf(call) ==
    [id |-> call.message_id, text |-> call.message_text, createdAt |-> call.timestamp]

\* The sort key <createdAt>#<id> of a snapshot entry.
KeyOf(entry) == entry.createdAt \o <<35>> \o entry.id

\* The snapshots in the bucket (none, or the one under state.json).
Snapshots == {o.Body.v : o \in bucket}

\* msgs lists the messages of the invocations W that have the greatest sort
\* keys, at most LIMIT of them, greatest first.
ListsNewest(msgs, W) ==
    /\ Len(msgs) = Min({Cardinality(W), LIMIT})
    /\ \A n \in 1..Len(msgs) : \E k \in W : msgs[n] = EntryOf(calls[k])
    /\ \A n \in 1..(Len(msgs) - 1) : StrLess(KeyOf(msgs[n + 1]), KeyOf(msgs[n]))
    /\ \A k \in W :
          (\A n \in 1..Len(msgs) : msgs[n] # EntryOf(calls[k]))
              => \A n \in 1..Len(msgs) : StrLess(calls[k].sort_key, KeyOf(msgs[n]))

\* Every api-handler invocation has returned 200, every entry of the bus has
\* triggered a snapshot-writer, and no snapshot-writer is in flight.
Quiescent ==
    /\ calls # <<>>
    /\ Succeeded = 1..Len(calls)
    /\ delivered = bus
    /\ builds = EmptyBag

\* C1: once every ingest has returned success, every notification has been
\* delivered and every snapshot-writer invocation has finished, the published
\* snapshot has messageCount equal to the number of accepted messages and
\* lists the (up to 5) stored messages with the greatest sort keys.
C1_EventualSnapshot ==
    Quiescent =>
        /\ Snapshots # {}
        /\ \A snap \in Snapshots :
              /\ snap.messageCount = Len(calls)
              /\ ListsNewest(snap.messages, Succeeded)

\* The MESSAGE items of the table.
Messages == {i \in table : i.PK = "MESSAGE"}

\* C2: every interleaving of concurrent valid posts increments messageCount
\* exactly once per post (a missing counter counts as 0), gives the posts
\* pairwise distinct ids, and ends with every one of them returning 200.
C2_ConcurrentIngests ==
    /\ GetMessageCount(table) = Cardinality(Counted)
    /\ \A j, k \in Counted : j # k => calls[j].message_id # calls[k].message_id
    /\ Running(calls) = {} =>
          /\ \A k \in 1..Len(calls) : ~Rejected(calls[k].event) => k \in Succeeded
          /\ \A j, k \in Succeeded :
                j # k => calls[j].result.value.body.v.messageId
                            # calls[k].result.value.body.v.messageId
          /\ GetMessageCount(table) = Cardinality(Succeeded)

\* Two posts are in flight at once, both past their update_item.
C2_Witness ==
    \E j, k \in 1..Len(calls) :
        /\ j # k
        /\ calls[j].pc = "put_item" /\ calls[k].pc = "put_item"
        /\ GetMessageCount(table) = 2

\* C4: the table holds one MESSAGE item, under <timestamp>#<id> and with that
\* post's own text and createdAt, for every post whose put_item has been
\* made, also when posts carry the same timestamp.
C4_NoClobber ==
    /\ Cardinality(Messages) = Cardinality(Wrote)
    /\ \A k \in Wrote :
          \E i \in Messages :
              /\ i.SK = calls[k].timestamp \o <<35>> \o calls[k].message_id
              /\ i.text = Strip(calls[k].event.body.doc.text.s)
              /\ i.createdAt = calls[k].timestamp

\* Two posts with the same timestamp and different texts have both been
\* written while both were in flight.
C4_Witness ==
    \E j, k \in Wrote :
        /\ j # k
        /\ calls[j].pc = "put_events" /\ calls[k].pc = "put_events"
        /\ calls[j].timestamp = calls[k].timestamp
        /\ calls[j].message_text # calls[k].message_text

\* C3: in every published snapshot, messageCount is at least the value the
\* counter had right after the update_item of the post whose message is
\* listed first.
C3_CountCoversNewest ==
    \A snap \in Snapshots :
        snap.messages # <<>> =>
            \A k \in 1..Len(calls) :
                calls[k].message_id = snap.messages[1].id
                    => snap.messageCount >= calls[k].countAfter

\* The step is a whole api-handler invocation for the request event: the
\* invocation starts and has ended in the next state.
Handled(event) ==
    /\ Len(calls') = Len(calls) + 1
    /\ calls'[Len(calls')].event = event
    /\ calls'[Len(calls')].pc = "done"

\* The invocation of the step returned the status, with a dict for body.
Answered(status) ==
    /\ calls'[Len(calls')].result.kind = "return"
    /\ calls'[Len(calls')].result.value.statusCode = status
    /\ calls'[Len(calls')].result.value.body.kind = "json"

\* The step is the start of an invocation for the event.
Starts(event) == Len(calls') = Len(calls) + 1 /\ calls'[Len(calls')].event = event

\* The event is a POST whose body is (the base64 encoding, when flagged so,
\* of) a JSON object with a string for text.
PostsText(event) ==
    /\ event.hasMethod /\ event.method = "POST"
    /\ event.hasBody
    /\ event.body.wire = (IF event.isBase64Encoded THEN "base64" ELSE "plain")
    /\ event.body.doc.t = "obj"
    /\ event.body.doc.text.t = "str"

\* The text of such a post is empty after trimming, or longer than 500
\* characters after trimming.
BadText(event) ==
    LET trimmed == Strip(event.body.doc.text.s)
    IN  PostsText(event) /\ (trimmed = <<>> \/ Len(trimmed) > 500)

\* C5: a POST whose text is empty after trimming, or longer than 500
\* characters after trimming, is answered 400 by a step that leaves the
\* counter, the messages and the notifications as they were.
C5_InvalidTextRejected ==
    [][\A event \in HttpEvents :
          (BadText(event) /\ Starts(event)) =>
              /\ Handled(event)
              /\ Answered(400)
              /\ table' = table /\ bus' = bus]_vars

\* After an accepted post, the post of 501 characters has been answered 400
\* and the table holds the one message and the count of one.
C5_Witness ==
    /\ Len(calls) = 2
    /\ 1 \in Succeeded
    /\ calls[2].event = Post(Raw("plain", ObjWith(TextOver)))
    /\ calls[2].result = Return(response(400, TRUE, [error |-> "Message too long (max 500 chars)"]))
    /\ Cardinality(Messages) = 1 /\ GetMessageCount(table) = 1

\* C6: an OPTIONS request is answered 200 with an empty body, any request
\* whose method is neither POST nor OPTIONS (or is missing) is answered 405,
\* and neither step changes the counter, the messages or the notifications,
\* whatever the body.
C6_MethodDispatch ==
    [][\A event \in HttpEvents :
          Starts(event) =>
              /\ (event.hasMethod /\ event.method = "OPTIONS") =>
                    /\ Handled(event)
                    /\ calls'[Len(calls')].result.kind = "return"
                    /\ calls'[Len(calls')].result.value.statusCode = 200
                    /\ calls'[Len(calls')].result.value.body = StrBody(<<>>)
                    /\ table' = table /\ bus' = bus
              /\ (~event.hasMethod \/ event.method \notin {"POST", "OPTIONS"}) =>
                    /\ Handled(event)
                    /\ Answered(405)
                    /\ table' = table /\ bus' = bus]_vars

\* After an accepted post, a request with no method and a valid body has
\* been answered 405 and the table holds the one message and the count of one.
C6_Witness ==
    /\ Len(calls) = 2
    /\ 1 \in Succeeded
    /\ ~calls[2].event.hasMethod
    /\ PostsText(Post(calls[2].event.body))
    /\ calls[2].result = Return(response(405, TRUE, [error |-> "Method not allowed"]))
    /\ Cardinality(Messages) = 1 /\ GetMessageCount(table) = 1

\* The event is a POST whose body cannot be parsed into a JSON object from
\* which a text string can be taken: None, bytes that do not decode, no JSON,
\* a JSON value that is no object, or an object whose text is no string.
Malformed(event) ==
    /\ event.hasMethod /\ event.method = "POST"
    /\ event.hasBody
    /\ ~PostsText(event)
    /\ ~(/\ event.body.wire = (IF event.isBase64Encoded THEN "base64" ELSE "plain")
         /\ event.body.doc.t = "obj"
         /\ event.body.doc.text.t = "missing")

\* C7: a POST with a malformed body is answered 400, with no call to the
\* table or the bus, and the handler raises no exception.
C7_MalformedBodyRejected ==
    \A k \in 1..Len(calls) :
        Malformed(calls[k].event) =>
            /\ calls[k].pc = "done"
            /\ calls[k].result.kind = "return"
            /\ calls[k].result.value.statusCode = 400

\* The step ends a snapshot-writer invocation with its put_object.
Publishes == BagCardinality(builds') < BagCardinality(builds)

\* C8: a snapshot-writer invocation that runs right after another one, with
\* no step of an api-handler since that one's put_object, puts the object
\* that is there already: the bucket stays as it was, whatever the events of
\* the two invocations.
C8_BuilderIdempotent == [][(runs >= 1 /\ Publishes) => bucket' = bucket]_vars

\* Two snapshot-writer invocations have run in a row after posts, and the
\* bucket holds their object.
C8_Witness ==
    /\ runs = 2
    /\ Len(calls) >= 2
    /\ \E s \in Snapshots : s.messageCount = Len(calls) /\ Len(s.messages) >= 2

\* The posts were made one after the other with strictly increasing
\* timestamps.
IncreasingTimestamps ==
    \A k \in 1..(Len(calls) - 1) : StrLess(calls[k].timestamp, calls[k + 1].timestamp)

\* C9: the messages of every published snapshot are in strictly descending
\* order of sort key; and when the posts were made one after the other with
\* strictly increasing timestamps, a snapshot-writer invocation that runs
\* after them lists the last post first, then the one before it, and so on.
C9_NewestFirst ==
    /\ \A s \in Snapshots : \A n \in 1..(Len(s.messages) - 1) :
          StrLess(KeyOf(s.messages[n + 1]), KeyOf(s.messages[n]))
    /\ (runs >= 1 /\ IncreasingTimestamps) =>
          \A s \in Snapshots : \A n \in 1..Len(s.messages) :
              /\ n <= Len(calls)
              /\ s.messages[n] = EntryOf(calls[Len(calls) + 1 - n])

\* Three posts A, B, C with increasing timestamps, then a snapshot-writer
\* invocation: the snapshot lists C, B, A.
C9_Witness ==
    /\ runs >= 1
    /\ Len(calls) = 3
    /\ IncreasingTimestamps
    /\ \E s \in Snapshots :
          s.messages = <<EntryOf(calls[3]), EntryOf(calls[2]), EntryOf(calls[1])>>

\* The number of messages a snapshot shows after k posts.
Window(k) == Min({k, 5})

\* The entries of the Window(k) posts made last.
LastPosted == {EntryOf(calls[j]) : j \in (Len(calls) - Window(Len(calls)) + 1)..Len(calls)}

\* The entries a snapshot lists.
Listed(s) == {s.messages[n] : n \in 1..Len(s.messages)}

\* C10 as stated: after k posts made one after the other, a snapshot-writer
\* invocation publishes messageCount k and exactly min(k, 5) messages, the
\* ones posted last.
C10_LastPosted ==
    runs >= 1 =>
        \A s \in Snapshots :
            /\ s.messageCount = Len(calls)
            /\ Len(s.messages) = Window(Len(calls))
            /\ Listed(s) = LastPosted

\* C10: after k posts made one after the other, a snapshot-writer invocation
\* publishes messageCount k and exactly min(k, 5) messages, the ones with the
\* greatest sort keys <createdAt>#<id>; these are the ones posted last when
\* the timestamps of the posts strictly increase.
C10_Window ==
    runs >= 1 =>
        \A s \in Snapshots :
            /\ s.messageCount = Len(calls)
            /\ Len(s.messages) = Window(Len(calls))
            /\ ListsNewest(s.messages, 1..Len(calls))
            /\ IncreasingTimestamps => Listed(s) = LastPosted

\* Six posts, two of them with one timestamp, then a snapshot-writer
\* invocation: the snapshot shows messageCount 6 and five messages, the first
\* post among them and a later one left out.
C10_Witness ==
    /\ runs >= 1
    /\ Len(calls) = 6
    /\ \E s \in Snapshots :
          /\ s.messageCount = 6
          /\ Len(s.messages) = 5
          /\ EntryOf(calls[1]) \in Listed(s)
          /\ EntryOf(calls[2]) \notin Listed(s)

\* The traced snapshot-writer invocations that returned.
Returned == {r \in finished : r.result.kind = "return"}

\* C11: two snapshot-writer invocations that read the same table (at
\* get_item and at query) and returned have put the same object and returned
\* the same response, whatever their events.
C11_PayloadIndependence ==
    \A r1, r2 \in Returned :
        r1.trace.seen = r2.trace.seen =>
            /\ r1.published = r2.published
            /\ r1.result = r2.result

\* After a post, two invocations have read the same table with the new
\* message in it, one triggered by the notification of the post, the other
\* by an event that names a message that does not exist.
C11_Witness ==
    \E r1, r2 \in Returned :
        /\ r1.trace.seen = r2.trace.seen
        /\ r1.event \in bus
        /\ r2.event = ForgedEvent
        /\ \E k \in Wrote : \A n \in 1..2 :
              MessageItem(calls[k].sort_key, calls[k].message_text, calls[k].timestamp)
                  \in r1.trace.seen[n]

\* The message records of a table.
MessageRecords(t) == {i \in t : i.PK = "MESSAGE"}

\* C12: a step that is not of an api-handler leaves the table as it was; no
\* step changes or removes a message record or decreases the counter; and a
\* step that changes the table either adds one to the counter and leaves the
\* message records, or adds one message record under a new key and leaves the
\* counter.
C12_StoreWriteOwnership ==
    [][/\ calls' = calls => table' = table
       /\ MessageRecords(table) \subseteq MessageRecords(table')
       /\ GetMessageCount(table') >= GetMessageCount(table)
       /\ table' # table =>
             \/ /\ GetMessageCount(table') = GetMessageCount(table) + 1
                /\ MessageRecords(table') = MessageRecords(table)
             \/ /\ GetMessageCount(table') = GetMessageCount(table)
                /\ \E item \in MessageRecords(table') :
                      /\ MessageRecords(table') = MessageRecords(table) \cup {item}
                      /\ \A i \in MessageRecords(table) : i.SK # item.SK]_vars

\* Two posts have stored their messages, and a snapshot-writer has published
\* both, with the counter at 2.
C12_Witness ==
    /\ Cardinality(MessageRecords(table)) = 2
    /\ GetMessageCount(table) = 2
    /\ \E s \in Snapshots : s.messageCount = 2 /\ Len(s.messages) = 2

\* The notification of an api-handler invocation, and its message record.
NotificationOf(call) == MessagePosted(call.message_id, call.timestamp)
RecordOf(call) == MessageItem(call.sort_key, call.message_text, call.timestamp)

\* The message records of t with a greater sort key than the call's.
Above(call, t) == {i \in MessageRecords(t) : StrLess(call.sort_key, i.SK)}

\* C13: a notification is on the bus only when the counter has been
\* incremented for its message and the message record is in the table; and a
\* snapshot-writer invocation that started with the notification of M on the
\* bus has published a messageCount of at least the counter right after M's
\* increment, and M among its messages unless the table it queried held five
\* or more message records with a greater sort key than M's.
C13_WriteThenNotify ==
    \A k \in 1..Len(calls) :
        /\ NotificationOf(calls[k]) \in bus =>
              /\ RecordOf(calls[k]) \in table
              /\ GetMessageCount(table) >= calls[k].countAfter
              /\ calls[k].countAfter >= 1
        /\ \A r \in Returned :
              NotificationOf(calls[k]) \in r.trace.notified =>
                  \A obj \in {r.published[n] : n \in 1..Len(r.published)} :
                      /\ Len(r.published) = 1
                      /\ obj.Body.v.messageCount >= calls[k].countAfter
                      /\ \/ EntryOf(calls[k]) \in Listed(obj.Body.v)
                         \/ Cardinality(Above(calls[k], r.trace.seen[2])) >= LIMIT

\* A snapshot-writer invocation that started after the notification of a post
\* has published the message of the post and a count that covers it.
C13_Witness ==
    \E k \in 1..Len(calls), r \in Returned :
        /\ NotificationOf(calls[k]) \in r.trace.notified
        /\ r.published[1].Body.v.messageCount = calls[k].countAfter
        /\ EntryOf(calls[k]) \in Listed(r.published[1].Body.v)
        /\ r.published[1] \in bucket

\* A snapshot-writer invocation that started after the notification of a post
\* has left the message out, for the five records that sort above it.
C13_LeftOut ==
    \E k \in 1..Len(calls), r \in Returned :
        /\ NotificationOf(calls[k]) \in r.trace.notified
        /\ EntryOf(calls[k]) \notin Listed(r.published[1].Body.v)

\* The api-handler invocations one of whose boto3 calls failed.
Failed == {k \in 1..Len(calls) : calls[k].failed # "none"}

\* C14: an api-handler invocation whose update_item, put_item or put_events
\* failed has returned the 500 response; what it did before the failure is in
\* place and nothing after it was done: a failed put_item leaves the counter
\* incremented, no message record and no notification, a failed put_events
\* leaves the counter incremented and the message record, and no
\* notification.
C14_PartialFailure ==
    /\ \A k \in Failed :
          /\ calls[k].pc = "done"
          /\ calls[k].result = Return(InternalError)
          /\ calls[k].failed = "update_item" =>
                /\ RecordOf(calls[k]) \notin table
                /\ NotificationOf(calls[k]) \notin bus
          /\ calls[k].failed = "put_item" =>
                /\ calls[k].countAfter >= 1
                /\ RecordOf(calls[k]) \notin table
                /\ NotificationOf(calls[k]) \notin bus
          /\ calls[k].failed = "put_events" =>
                /\ calls[k].countAfter >= 1
                /\ RecordOf(calls[k]) \in table
                /\ NotificationOf(calls[k]) \notin bus
    /\ GetMessageCount(table) =
          Cardinality({k \in 1..Len(calls) : calls[k].failed # "update_item"})

\* The traced snapshot-writer invocations that end with the step.
Ending == finished' \ finished

\* C15: a snapshot-writer invocation that ends without having put its object
\* (its get_item, its query or its put_object failed) ends by raising: it
\* returns nothing, no invocation is started in its place, and the bucket and
\* the table are as they were; an invocation that returns has made both
\* reads and put one object.
C15_BuilderFailureRaises ==
    [][\A r \in Ending :
          /\ r.published = <<>> =>
                /\ r.result.kind = "raise"
                /\ bucket' = bucket
                /\ table' = table
                /\ BagCardinality(builds') <= BagCardinality(builds)
          /\ r.result.kind = "return" =>
                /\ Len(r.trace.seen) = 2
                /\ Len(r.published) = 1
                /\ r.published[1] \in bucket'
                /\ r.result.value.statusCode = 200
                /\ r.result.value.body.v.messageCount =
                       r.published[1].Body.v.messageCount]_vars

\* After a post, one invocation has failed at get_item or at query, and one
\* at put_object, and the bucket still holds the snapshot from before the
\* post.
C15_Witness ==
    /\ \E r1, r2 \in finished :
          /\ r1.result.kind = "raise" /\ Len(r1.trace.seen) = 1
          /\ r2.result.kind = "raise" /\ Len(r2.trace.seen) = 2
    /\ \E k \in Wrote : \A s \in Snapshots : EntryOf(calls[k]) \notin Listed(s)
    /\ bucket # {}

\* The sort key has no '#' in it.
Plain(sk) == \A i \in 1..Len(sk) : sk[i] # 35

\* C16: the entry a snapshot-writer invocation has published for a record it
\* read has, when the record was stored by an api-handler invocation that
\* returned the 200 response, the messageId and the timestamp of that response
\* for id and createdAt; and when the sort key of the record has no '#', the
\* whole sort key for id.
C16_IdRoundTrip ==
    \A r \in Returned :
        LET entries == r.published[1].Body.v.messages
        IN  /\ Len(entries) = Len(r.items)
            /\ \A n \in 1..Len(r.items) :
                  /\ \A k \in Succeeded :
                        r.items[n].SK = calls[k].sort_key =>
                            /\ entries[n].id = calls[k].result.value.body.v.messageId
                            /\ entries[n].createdAt = calls[k].result.value.body.v.timestamp
                  /\ Plain(r.items[n].SK) => entries[n].id = r.items[n].SK

\* An invocation has published the message of a post that returned 200 and
\* the record with the sort key "old".
C16_Witness ==
    \E r \in Returned, k \in Succeeded, n, m \in 1..LIMIT :
        /\ n <= Len(r.items) /\ m <= Len(r.items)
        /\ r.items[n].SK = calls[k].sort_key
        /\ calls[k].sort_key = calls[k].timestamp \o <<35>> \o calls[k].message_id
        /\ r.published[1].Body.v.messages[n].id = calls[k].message_id
        /\ r.items[m] = LegacyItem
        /\ r.published[1].Body.v.messages[m].id = <<111, 108, 100>>

\* C17: the counter is at least the number of message records, which is at
\* least the number of notifications emitted, whatever the interleaving of
\* the posts and whichever calls fail; the three are equal when no
\* api-handler invocation is in flight and no call of one has failed.
C17_CounterCoversMessages ==
    /\ GetMessageCount(table) >= Cardinality(MessageRecords(table))
    /\ Cardinality(MessageRecords(table)) >= Cardinality(bus)
    /\ (Running(calls) = {} /\ Failed = {}) =>
          /\ GetMessageCount(table) = Cardinality(MessageRecords(table))
          /\ Cardinality(MessageRecords(table)) = Cardinality(bus)
          /\ Cardinality(bus) = Len(calls)

\* Two posts have ended, one with a put_item that failed, the other with a
\* put_events that failed: the counter is 2, with one message record and no
\* notification.
C17_Witness ==
    /\ Len(calls) = 2
    /\ Running(calls) = {}
    /\ {calls[k].failed : k \in 1..2} = {"put_item", "put_events"}
    /\ GetMessageCount(table) = 2
    /\ Cardinality(MessageRecords(table)) = 1
    /\ bus = {}

\* The entry shows a message record of the table: its text and createdAt,
\* and for id the part of its sort key after the '#' (the whole key when it
\* has none).
Grounded(entry) ==
    \E i \in MessageRecords(table) :
        /\ i.text = entry.text
        /\ i.createdAt = entry.createdAt
        /\ \/ i.SK = entry.id /\ Plain(i.SK)
           \/ \E n \in 1..Len(i.SK) : i.SK[n] = 35 /\ SubSeq(i.SK, n + 1, Len(i.SK)) = entry.id

\* C18: the object in the bucket lists at most 5 messages, no message twice,
\* each a message record of the table, and its messageCount is between 0 and
\* the counter of the table.
C18_SnapshotGrounded ==
    \A s \in Snapshots :
        /\ Len(s.messages) <= 5
        /\ \A n, m \in 1..Len(s.messages) : n # m => s.messages[n] # s.messages[m]
        /\ \A n \in 1..Len(s.messages) : Grounded(s.messages[n])
        /\ s.messageCount >= 0
        /\ s.messageCount <= GetMessageCount(table)

\* With six message records in the table, an invocation that read the counter
\* before the post has published, after it, a count of 5 with five messages.
C18_Witness ==
    /\ Cardinality(MessageRecords(table)) = 6
    /\ GetMessageCount(table) = 6
    /\ \E r \in Returned :
          /\ r.published[1] \in bucket
          /\ r.published[1].Body.v.messageCount = 5
          /\ Len(r.published[1].Body.v.messages) = 5
          /\ \E k \in Wrote : RecordOf(calls[k]) \notin r.trace.seen[1]

=============================================================================
